---------------------------- MODULE Spec2Model ----------------------------
(***************************************************************************)
(* Key custody and transaction pipeline of the Stellar MCP server.         *)
(*                                                                         *)
(*   key_manager.py    KeyManager: the in-memory dict _keypair_store       *)
(*   stellar_tools.py  the tool functions built on KeyManager and on the   *)
(*                     Horizon client (create/import/export, trustlines,   *)
(*                     build/sign/submit, cancel_order)                    *)
(*                                                                         *)
(* Five specifications share the state:                                    *)
(*   VaultSpec  the methods of KeyManager called directly, with any        *)
(*              (account_id, secret_key) strings;                          *)
(*   Spec       the tool functions of stellar_tools.py, which reach the    *)
(*              vault only through create_account and import_keypair;      *)
(*   MarketSpec one market order placed on a given order book;             *)
(*   ConcSpec   two KeyManager calls running at the same time, one dict    *)
(*              operation at a step;                                       *)
(*   AssetSpec  _dict_to_asset applied to pairs of asset dicts.            *)
(* Horizon, the stellar_sdk codec and Keypair are external: their outcomes  *)
(* are inputs chosen with \E.                                              *)
(***************************************************************************)
EXTENDS Integers, Sequences, FiniteSets, TLC

VARIABLES
    vault,  \* KeyManager._keypair_store: a dict account_id -> secret_key
    last,   \* the last call: its name, arguments, external calls and result
    written, \* history: per account_id, the secret most recently written
    running  \* the KeyManager calls in flight, per thread, and their position

vars == <<vault, last, written, running>>

(***************************************************************************)
(* Bounds and data                                                         *)
(***************************************************************************)

\* Number of distinct valid keypairs (seed i derives public key i).
NumKeypairs == 2

\* Number of distinct offer ids a caller may name.
NumOffers == 1

\* Account ids (public keys). 1..NumKeypairs are derived from the seeds of
\* the model; 0 is a well-formed public key whose seed nobody holds here.
Identities == 0..NumKeypairs

\* Secret-key strings. Python strings are modelled as records so that every
\* string a caller may pass has the same shape.
Seed(i) == [form |-> "seed", n |-> i]
EmptySecret == [form |-> "empty", n |-> 0]
MalformedSecret == [form |-> "malformed", n |-> 0]
ValidSecrets == {Seed(i) : i \in 1..NumKeypairs}
Secrets == ValidSecrets \cup {EmptySecret, MalformedSecret}

\* Python truthiness of a str: only "" is falsy.
Truthy(s) == s.form # "empty"

\* An exception: its class, its message text, and what the text quotes.
Exc(type, msg, about, echo) ==
    [type |-> type, msg |-> msg, about |-> about, echo |-> echo]

\* What a method call gives back: a value or a raised exception.
Return(v) == [raised |-> FALSE, value |-> v]
Raise(e) == [raised |-> TRUE, exc |-> e]

(***************************************************************************)
(* stellar_sdk.Keypair                                                     *)
(***************************************************************************)

\* Keypair.from_secret(secret): decodes the seed and derives the public key;
\* raises on a string that is not an encoded seed.
from_secret(secret) ==
    IF secret.form = "seed"
    THEN Return([secret |-> secret, public_key |-> secret.n])
    ELSE Raise(Exc("Ed25519SecretSeedInvalidError", "Invalid Ed25519 Secret Seed",
                   {}, {secret}))

(***************************************************************************)
(* key_manager.py: class KeyManager                                        *)
(***************************************************************************)

\* dict[key] = value
DictSet(d, k, v) == [x \in DOMAIN d \cup {k} |-> IF x = k THEN v ELSE d[x]]

\* KeyManager.__init__
KeyManager_init == << >>

\* Variant of KeyManager.store that derives the key from the secret and
\* leaves the dict alone when the account_id is not the derived one.
store_checked(d, account_id, secret_key) ==
    LET keypair == from_secret(secret_key) IN
    IF keypair.raised \/ keypair.value.public_key # account_id
    THEN d
    ELSE DictSet(d, account_id, secret_key)

\* KeyManager.store: the dict after the call.
store(d, account_id, secret_key) == DictSet(d, account_id, secret_key)

\* Variant of get_keypair without the membership check: a missing account_id
\* reaches Keypair.from_secret as None.
get_keypair_unchecked(d, account_id) ==
    IF account_id \notin DOMAIN d
    THEN Raise(Exc("TypeError", "NoneType", {}, {}))
    ELSE from_secret(d[account_id])

\* KeyManager.get_keypair
get_keypair(d, account_id) ==
    IF account_id \notin DOMAIN d \/ ~Truthy(d[account_id])
    THEN Raise(Exc("ValueError", "not found in key storage", {account_id}, {}))
    ELSE from_secret(d[account_id])

\* The keys of a dict in the order of iteration, each key once.
KeysList(d) ==
    CHOOSE s \in [1..Cardinality(DOMAIN d) -> DOMAIN d] :
        \A i, j \in 1..Cardinality(DOMAIN d) : i < j => s[i] < s[j]

\* A Python object holding account ids: a list, which owns its items, or a
\* view (dict_keys), which shows the keys the dict has when it is read.
ListObject(live, items) == [live |-> live, items |-> items]
ListItems(lst, d) == IF lst.live THEN KeysList(d) ELSE lst.items

\* Variant of KeyManager.list_accounts that returns the dict's key view
\* instead of copying it into a list.
list_accounts_keys_view(d) == ListObject(TRUE, KeysList(d))

\* KeyManager.list_accounts: list(self._keypair_store.keys())
list_accounts_keys(d) == ListObject(FALSE, KeysList(d))

\* KeyManager.export_secret
export_secret(d, account_id) ==
    IF account_id \notin DOMAIN d \/ ~Truthy(d[account_id])
    THEN Raise(Exc("ValueError", "not found in storage", {account_id}, {}))
    ELSE Return(d[account_id])

\* Variant of KeyManager.import_keypair that refuses a secret whose account_id
\* is already stored.
import_keypair_km_rejects_known(d, secret_key) ==
    LET keypair == from_secret(secret_key) IN
    IF keypair.raised
    THEN [ret |-> keypair, store |-> d]
    ELSE IF keypair.value.public_key \in DOMAIN d
    THEN [ret |-> Raise(Exc("ValueError", "already stored",
                            {keypair.value.public_key}, {})),
          store |-> d]
    ELSE [ret |-> Return(keypair.value.public_key),
          store |-> DictSet(d, keypair.value.public_key, secret_key)]

\* Variant of KeyManager.import_keypair that writes the secret into the dict
\* before deriving the key, under a provisional account_id, and then raises.
import_keypair_km_store_first(d, secret_key) ==
    LET keypair == from_secret(secret_key) IN
    IF keypair.raised
    THEN [ret |-> keypair, store |-> DictSet(d, 0, secret_key)]
    ELSE [ret |-> Return(keypair.value.public_key),
          store |-> DictSet(d, keypair.value.public_key, secret_key)]

\* Variant of KeyManager.import_keypair that replaces the whole dict by the
\* imported pair.
import_keypair_km_replaces_all(d, secret_key) ==
    LET keypair == from_secret(secret_key) IN
    IF keypair.raised
    THEN [ret |-> keypair, store |-> d]
    ELSE [ret |-> Return(keypair.value.public_key),
          store |-> DictSet(<< >>, keypair.value.public_key, secret_key)]

\* KeyManager.import_keypair: the returned account_id (or the exception) and
\* the dict after the call.
import_keypair_km(d, secret_key) ==
    LET keypair == from_secret(secret_key) IN
    IF keypair.raised
    THEN [ret |-> keypair, store |-> d]
    ELSE [ret |-> Return(keypair.value.public_key),
          store |-> DictSet(d, keypair.value.public_key, secret_key)]

\* KeyManager.has_account
has_account(d, account_id) == account_id \in DOMAIN d

(***************************************************************************)
(* stellar_sdk: assets, operations, transactions, the XDR codec            *)
(***************************************************************************)

\* Asset.native() and Asset(code, issuer).
Asset_native == [type |-> "native", code |-> "XLM", issuer |-> {}]
Asset(code, issuer) == [type |-> "issued", code |-> code, issuer |-> {issuer}]

\* Asset dicts a caller may pass: {"type": "native"}, {"code", "issuer"},
\* and dicts with a key missing.
D_native == [type |-> "native"]
D_issued == [code |-> "USDC", issuer |-> 0]
D_nocode == [issuer |-> 0]
D_noissuer == [code |-> "USDC"]
AssetDicts == {D_native, D_issued, D_nocode, D_noissuer}

\* Asset dicts as Horizon's offer records spell them.
H_native == [asset_type |-> "native"]
H_issued == [asset_type |-> "credit_alphanum4", asset_code |-> "USDC",
             asset_issuer |-> 0]

\* dict.get(key, default)
dict_get(d, k, default) == IF k \in DOMAIN d THEN d[k] ELSE default

\* An unsigned transaction of one operation, and tx.sign(keypair).
Tx(source, op) == [source |-> source, op |-> op, signatures |-> {}]
sign(tx, keypair) ==
    [tx EXCEPT !.signatures = @ \cup {keypair.public_key}]

\* tx.to_xdr() and TransactionEnvelope.from_xdr(xdr, passphrase): the XDR
\* string of an envelope decodes to it; any other string does not decode.
to_xdr(tx) == [encoding |-> "xdr", envelope |-> tx]
GarbageXdr == [encoding |-> "garbage"]
from_xdr(xdr) ==
    IF xdr.encoding = "xdr"
    THEN Return(xdr.envelope)
    ELSE Raise(Exc("ValueError", "invalid XDR", {}, {}))

\* str(e): the message text; the exception's class is not part of it.
Str(e) == [msg |-> e.msg, about |-> e.about, echo |-> e.echo]

(***************************************************************************)
(* Horizon (external): what each request may answer                        *)
(***************************************************************************)

\* horizon.load_account(account_id)
AccountOutcomes == {"ok", "NotFoundError", "ConnectionError"}
load_account(outcome, account_id) ==
    IF outcome = "ok"
    THEN Return([account_id |-> account_id])
    ELSE Raise(Exc(outcome, "load_account failed", {account_id}, {}))

\* horizon.offers().offer(offer_id).call(): the offer record, or an error.
OfferIds == 1..NumOffers
OfferRecords ==
    { [selling |-> D_native, buying |-> D_issued, price |-> "2"],
      [selling |-> D_issued, buying |-> D_native, price |-> "3"],
      [selling |-> H_native, buying |-> H_issued, price |-> "2"] }
OfferOutcomes ==
    {Return(o) : o \in OfferRecords}
        \cup {Raise(Exc(t, "offer lookup failed", {}, {}))
                : t \in {"NotFoundError", "ConnectionError"}}

\* horizon.submit_transaction(tx): a response dict, or an exception.
\*   BadRequestError  the ledger validated and rejected the transaction
\*   ConnectionError  the network could not be reached, nothing was sent
\*   ReadTimeout      the request was sent and no answer came back
SubmitResponses ==
    { [successful |-> TRUE, hash |-> "H", ledger |-> "L"],
      [successful |-> FALSE, hash |-> "H", ledger |-> "None"],
      [hash |-> "H", ledger |-> "L"] }
SubmitFaults ==
    { Exc("BadRequestError", "tx_failed", {}, {}),
      Exc("ConnectionError", "connection refused", {}, {}),
      Exc("ReadTimeout", "read timed out", {}, {}) }
SubmitOutcomes ==
    {Return(r) : r \in SubmitResponses} \cup {Raise(e) : e \in SubmitFaults}

\* The answers Horizon gives during one invocation: env.account to
\* load_account, env.offer to the offer lookup, env.submit to
\* submit_transaction. An invocation is given the answers to the requests
\* its tool can make.

(***************************************************************************)
(* stellar_tools.py                                                        *)
(***************************************************************************)

\* What one invocation did and returned:
\*   calls   the steps it took, in order
\*   result  the dict it returned
\*   built   the unsigned transaction it built, if any
\*   sent    the envelope it handed to horizon.submit_transaction, if any
\*   answer  what horizon.submit_transaction answered, if it was called
Done(calls, result, built, sent, answer) ==
    [calls |-> calls, result |-> result, built |-> built, sent |-> sent,
     answer |-> answer]

\* Variant of _dict_to_asset that reads the issuer with a default instead of
\* raising when the key is missing.
dict_to_asset_default_issuer(asset_dict) ==
    IF dict_get(asset_dict, "type", "None") = "native"
    THEN Return(Asset_native)
    ELSE IF "code" \notin DOMAIN asset_dict
    THEN Raise(Exc("KeyError", "code", {}, {}))
    ELSE Return(Asset(asset_dict.code, dict_get(asset_dict, "issuer", 0)))

\* Variant of _dict_to_asset that takes the code "XLM" for the native asset.
dict_to_asset_xlm_is_native(asset_dict) ==
    IF dict_get(asset_dict, "type", "None") = "native"
    THEN Return(Asset_native)
    ELSE IF "code" \notin DOMAIN asset_dict
    THEN Raise(Exc("KeyError", "code", {}, {}))
    ELSE IF asset_dict.code = "XLM"
    THEN Return(Asset_native)
    ELSE IF "issuer" \notin DOMAIN asset_dict
    THEN Raise(Exc("KeyError", "issuer", {}, {}))
    ELSE Return(Asset(asset_dict.code, asset_dict.issuer))

\* _dict_to_asset
dict_to_asset(asset_dict) ==
    IF dict_get(asset_dict, "type", "None") = "native"
    THEN Return(Asset_native)
    ELSE IF "code" \notin DOMAIN asset_dict
    THEN Raise(Exc("KeyError", "code", {}, {}))
    ELSE IF "issuer" \notin DOMAIN asset_dict
    THEN Raise(Exc("KeyError", "issuer", {}, {}))
    ELSE Return(Asset(asset_dict.code, asset_dict.issuer))

\* Variant of SubmitResult that reports success whenever a response came back.
SubmitResult_always_success(response, message) ==
    [success |-> TRUE,
     hash |-> dict_get(response, "hash", "None"),
     ledger |-> dict_get(response, "ledger", "None"),
     message |-> message]

\* The dict the three one-call pipelines return after horizon.submit_transaction
\* answered: {"success": response.get("successful", False), "hash": ...,
\* "ledger": ..., "message": ...}.
SubmitResult(response, message) ==
    [success |-> dict_get(response, "successful", FALSE),
     hash |-> dict_get(response, "hash", "None"),
     ledger |-> dict_get(response, "ledger", "None"),
     message |-> message]

\* except Exception as e: return {"success": False, "error": str(e)}
FailureResult(e) == [success |-> FALSE, error |-> Str(e)]

\* except Exception as e: return {"error": str(e)}
ErrorResult(e) == [error |-> Str(e)]

\* Operations appended by TransactionBuilder. A limit of None is replaced by
\* the maximum limit by the SDK's change-trust operation.
ChangeTrustOp(asset, limit) ==
    [type |-> "change_trust", asset |-> asset,
     limit |-> IF limit = "None" THEN "max" ELSE limit]
ManageSellOfferOp(selling, buying, amount, price, offer_id) ==
    [type |-> "manage_sell_offer", selling |-> selling, buying |-> buying,
     amount |-> amount, price |-> price, offer_id |-> offer_id]
ManageBuyOfferOp(selling, buying, amount, price, offer_id) ==
    [type |-> "manage_buy_offer", selling |-> selling, buying |-> buying,
     amount |-> amount, price |-> price, offer_id |-> offer_id]

\* str.lower() on the direction strings of the model.
Lower(str) ==
    CASE str = "BUY" -> "buy"
      [] str = "SELL" -> "sell"
      [] OTHER -> str

\* Variant of create_account that also returns the new secret key.
create_account_with_secret(d, keypair) ==
    [done |-> Done(<<"store">>,
                   [account_id |-> keypair.public_key,
                    secret_key |-> keypair.secret,
                    message |-> "Account created (unfunded)"],
                   {}, {}, {}),
     store |-> DictSet(d, keypair.public_key, keypair.secret)]

\* Variant of create_account that returns the new account_id without
\* storing the keypair.
create_account_not_stored(d, keypair) ==
    [done |-> Done(<< >>,
                   [account_id |-> keypair.public_key,
                    message |-> "Account created (unfunded)"],
                   {}, {}, {}),
     store |-> d]

\* create_account, given the keypair Keypair.random() drew: the result and
\* the vault after the call.
create_account(d, keypair) ==
    [done |-> Done(<<"store">>,
                   [account_id |-> keypair.public_key,
                    message |-> "Account created (unfunded)"],
                   {}, {}, {}),
     store |-> store(d, keypair.public_key, keypair.secret)]

\* list_accounts
list_accounts(d) ==
    Done(<<"list_accounts">>,
         [accounts |-> list_accounts_keys(d),
          count |-> Len(ListItems(list_accounts_keys(d), d))],
         {}, {}, {})

\* Variant of export_keypair without the try/except: the ValueError of the
\* vault propagates to the caller instead of becoming an error dict.
export_keypair_unguarded(d, account_id) ==
    LET secret_key == export_secret(d, account_id) IN
    IF secret_key.raised
    THEN Done(<<"export_secret">>, secret_key, {}, {}, {})
    ELSE Done(<<"export_secret">>,
              [account_id |-> account_id, secret_key |-> secret_key.value,
               warning |-> "Keep this secret key secure!"],
              {}, {}, {})

\* export_keypair
export_keypair(d, account_id) ==
    LET secret_key == export_secret(d, account_id) IN
    IF secret_key.raised
    THEN Done(<<"export_secret">>, ErrorResult(secret_key.exc), {}, {}, {})
    ELSE Done(<<"export_secret">>,
              [account_id |-> account_id, secret_key |-> secret_key.value,
               warning |-> "Keep this secret key secure!"],
              {}, {}, {})

\* import_keypair: the result and the vault after the call.
import_keypair(d, secret_key) ==
    LET r == import_keypair_km(d, secret_key) IN
    [done |-> IF r.ret.raised
              THEN Done(<<"import_keypair">>, ErrorResult(r.ret.exc), {}, {}, {})
              ELSE Done(<<"import_keypair">>,
                        [account_id |-> r.ret.value,
                         message |-> "Keypair imported successfully"],
                        {}, {}, {}),
     store |-> r.store]

\* Variant of establish_trustline that loads the account from Horizon before
\* it looks the keypair up in the vault.
establish_trustline_load_first(d, account_id, asset, limit, env) ==
    LET keypair == get_keypair(d, account_id)
        asset_obj == dict_to_asset(asset)
        account == load_account(env.account, account_id)
        tx == Tx(account_id, ChangeTrustOp(asset_obj.value, limit))
        signed == sign(tx, keypair.value)
        response == env.submit
    IN
    IF account.raised
    THEN Done(<<"load_account">>, FailureResult(account.exc), {}, {}, {})
    ELSE IF keypair.raised
    THEN Done(<<"load_account", "get_keypair">>, FailureResult(keypair.exc),
              {}, {}, {})
    ELSE IF asset_obj.raised
    THEN Done(<<"load_account", "get_keypair">>, FailureResult(asset_obj.exc),
              {}, {}, {})
    ELSE IF response.raised
    THEN Done(<<"load_account", "get_keypair", "build", "sign", "submit">>,
              FailureResult(response.exc), {tx}, {signed}, {response})
    ELSE Done(<<"load_account", "get_keypair", "build", "sign", "submit">>,
              SubmitResult(response.value, "Trustline established"),
              {tx}, {signed}, {response})

\* establish_trustline
establish_trustline(d, account_id, asset, limit, env) ==
    LET keypair == get_keypair(d, account_id)
        asset_obj == dict_to_asset(asset)
        account == load_account(env.account, account_id)
        tx == Tx(account_id, ChangeTrustOp(asset_obj.value, limit))
        signed == sign(tx, keypair.value)
        response == env.submit
    IN
    IF keypair.raised
    THEN Done(<<"get_keypair">>, FailureResult(keypair.exc), {}, {}, {})
    ELSE IF asset_obj.raised
    THEN Done(<<"get_keypair">>, FailureResult(asset_obj.exc), {}, {}, {})
    ELSE IF account.raised
    THEN Done(<<"get_keypair", "load_account">>, FailureResult(account.exc),
              {}, {}, {})
    ELSE IF response.raised
    THEN Done(<<"get_keypair", "load_account", "build", "sign", "submit">>,
              FailureResult(response.exc), {tx}, {signed}, {response})
    ELSE Done(<<"get_keypair", "load_account", "build", "sign", "submit">>,
              SubmitResult(response.value, "Trustline established"),
              {tx}, {signed}, {response})

\* Variant of remove_trustline that appends the change-trust operation
\* without a limit, which the SDK reads as the maximum.
remove_trustline_default_limit(d, account_id, asset, env) ==
    LET keypair == get_keypair(d, account_id)
        asset_obj == dict_to_asset(asset)
        account == load_account(env.account, account_id)
        tx == Tx(account_id, ChangeTrustOp(asset_obj.value, "None"))
        signed == sign(tx, keypair.value)
        response == env.submit
    IN
    IF keypair.raised
    THEN Done(<<"get_keypair">>, FailureResult(keypair.exc), {}, {}, {})
    ELSE IF asset_obj.raised
    THEN Done(<<"get_keypair">>, FailureResult(asset_obj.exc), {}, {}, {})
    ELSE IF account.raised
    THEN Done(<<"get_keypair", "load_account">>, FailureResult(account.exc),
              {}, {}, {})
    ELSE IF response.raised
    THEN Done(<<"get_keypair", "load_account", "build", "sign", "submit">>,
              FailureResult(response.exc), {tx}, {signed}, {response})
    ELSE Done(<<"get_keypair", "load_account", "build", "sign", "submit">>,
              SubmitResult(response.value, "Trustline removed"),
              {tx}, {signed}, {response})

\* remove_trustline
remove_trustline(d, account_id, asset, env) ==
    LET keypair == get_keypair(d, account_id)
        asset_obj == dict_to_asset(asset)
        account == load_account(env.account, account_id)
        tx == Tx(account_id, ChangeTrustOp(asset_obj.value, "0"))
        signed == sign(tx, keypair.value)
        response == env.submit
    IN
    IF keypair.raised
    THEN Done(<<"get_keypair">>, FailureResult(keypair.exc), {}, {}, {})
    ELSE IF asset_obj.raised
    THEN Done(<<"get_keypair">>, FailureResult(asset_obj.exc), {}, {}, {})
    ELSE IF account.raised
    THEN Done(<<"get_keypair", "load_account">>, FailureResult(account.exc),
              {}, {}, {})
    ELSE IF response.raised
    THEN Done(<<"get_keypair", "load_account", "build", "sign", "submit">>,
              FailureResult(response.exc), {tx}, {signed}, {response})
    ELSE Done(<<"get_keypair", "load_account", "build", "sign", "submit">>,
              SubmitResult(response.value, "Trustline removed"),
              {tx}, {signed}, {response})

\* Variant of build_order_transaction that exchanges the two asset sides of a
\* sell order.
build_order_transaction_swaps_on_sell(account_id, buy_or_sell, selling_asset, buying_asset, amount, price, env) ==
    LET account == load_account(env.account, account_id)
        selling == dict_to_asset(selling_asset)
        buying == dict_to_asset(buying_asset)
        op == IF Lower(buy_or_sell) = "buy"
              THEN ManageBuyOfferOp(selling.value, buying.value, amount, price, 0)
              ELSE ManageSellOfferOp(buying.value, selling.value, amount, price, 0)
        tx == Tx(account_id, op)
    IN
    IF account.raised
    THEN Done(<<"load_account">>, ErrorResult(account.exc), {}, {}, {})
    ELSE IF selling.raised
    THEN Done(<<"load_account">>, ErrorResult(selling.exc), {}, {}, {})
    ELSE IF buying.raised
    THEN Done(<<"load_account">>, ErrorResult(buying.exc), {}, {}, {})
    ELSE IF Lower(buy_or_sell) \notin {"buy", "sell"}
    THEN Done(<<"load_account">>,
              ErrorResult(Exc("ValueError", "buy_or_sell must be 'buy' or 'sell'",
                              {}, {})),
              {}, {}, {})
    ELSE Done(<<"load_account", "build">>,
              [xdr |-> to_xdr(tx), tx_hash |-> [hash_of |-> tx],
               message |-> "Built order transaction (unsigned)"],
              {tx}, {}, {})

\* Variant of build_order_transaction whose second branch is a plain else:
\* every direction other than "buy" builds a sell offer.
build_order_transaction_else_sell(account_id, buy_or_sell, selling_asset, buying_asset, amount, price, env) ==
    LET account == load_account(env.account, account_id)
        selling == dict_to_asset(selling_asset)
        buying == dict_to_asset(buying_asset)
        op == IF Lower(buy_or_sell) = "buy"
              THEN ManageBuyOfferOp(selling.value, buying.value, amount, price, 0)
              ELSE ManageSellOfferOp(selling.value, buying.value, amount, price, 0)
        tx == Tx(account_id, op)
    IN
    IF account.raised
    THEN Done(<<"load_account">>, ErrorResult(account.exc), {}, {}, {})
    ELSE IF selling.raised
    THEN Done(<<"load_account">>, ErrorResult(selling.exc), {}, {}, {})
    ELSE IF buying.raised
    THEN Done(<<"load_account">>, ErrorResult(buying.exc), {}, {}, {})
    ELSE Done(<<"load_account", "build">>,
              [xdr |-> to_xdr(tx), tx_hash |-> [hash_of |-> tx],
               message |-> "Built order transaction (unsigned)"],
              {tx}, {}, {})

\* build_order_transaction
build_order_transaction(account_id, buy_or_sell, selling_asset, buying_asset, amount, price, env) ==
    LET account == load_account(env.account, account_id)
        selling == dict_to_asset(selling_asset)
        buying == dict_to_asset(buying_asset)
        op == IF Lower(buy_or_sell) = "buy"
              THEN ManageBuyOfferOp(selling.value, buying.value, amount, price, 0)
              ELSE ManageSellOfferOp(selling.value, buying.value, amount, price, 0)
        tx == Tx(account_id, op)
    IN
    IF account.raised
    THEN Done(<<"load_account">>, ErrorResult(account.exc), {}, {}, {})
    ELSE IF selling.raised
    THEN Done(<<"load_account">>, ErrorResult(selling.exc), {}, {}, {})
    ELSE IF buying.raised
    THEN Done(<<"load_account">>, ErrorResult(buying.exc), {}, {}, {})
    ELSE IF Lower(buy_or_sell) \notin {"buy", "sell"}
    THEN Done(<<"load_account">>,
              ErrorResult(Exc("ValueError", "buy_or_sell must be 'buy' or 'sell'",
                              {}, {})),
              {}, {}, {})
    ELSE Done(<<"load_account", "build">>,
              [xdr |-> to_xdr(tx), tx_hash |-> [hash_of |-> tx],
               message |-> "Built order transaction (unsigned)"],
              {tx}, {}, {})

\* sign_transaction
sign_transaction(d, account_id, xdr) ==
    LET keypair == get_keypair(d, account_id)
        tx == from_xdr(xdr)
    IN
    IF keypair.raised
    THEN Done(<<"get_keypair">>, ErrorResult(keypair.exc), {}, {}, {})
    ELSE IF tx.raised
    THEN Done(<<"get_keypair", "from_xdr">>, ErrorResult(tx.exc), {}, {}, {})
    ELSE Done(<<"get_keypair", "from_xdr", "sign">>,
              [signed_xdr |-> to_xdr(sign(tx.value, keypair.value)),
               message |-> "Transaction signed successfully"],
              {}, {}, {})

\* Variant of submit_transaction that submits a second time when the first
\* attempt raised.
submit_transaction_retry(signed_xdr, env) ==
    LET tx == from_xdr(signed_xdr)
        response == env.submit
    IN
    IF tx.raised
    THEN Done(<<"from_xdr">>, FailureResult(tx.exc), {}, {}, {})
    ELSE IF response.raised
    THEN Done(<<"from_xdr", "submit", "submit">>, FailureResult(response.exc),
              {}, {tx.value}, {response})
    ELSE Done(<<"from_xdr", "submit">>,
              SubmitResult(response.value, "Transaction submitted successfully"),
              {}, {tx.value}, {response})

\* submit_transaction
submit_transaction(signed_xdr, env) ==
    LET tx == from_xdr(signed_xdr)
        response == env.submit
    IN
    IF tx.raised
    THEN Done(<<"from_xdr">>, FailureResult(tx.exc), {}, {}, {})
    ELSE IF response.raised
    THEN Done(<<"from_xdr", "submit">>, FailureResult(response.exc),
              {}, {tx.value}, {response})
    ELSE Done(<<"from_xdr", "submit">>,
              SubmitResult(response.value, "Transaction submitted successfully"),
              {}, {tx.value}, {response})

\* Variant of cancel_order that submits the built transaction without
\* signing it.
cancel_order_unsigned(d, account_id, offer_id, env) ==
    LET keypair == get_keypair(d, account_id)
        offer == env.offer
        selling == dict_to_asset(offer.value.selling)
        buying == dict_to_asset(offer.value.buying)
        account == load_account(env.account, account_id)
        tx == Tx(account_id,
                 ManageSellOfferOp(selling.value, buying.value, "0",
                                   offer.value.price, offer_id))
        response == env.submit
    IN
    IF keypair.raised
    THEN Done(<<"get_keypair">>, FailureResult(keypair.exc), {}, {}, {})
    ELSE IF offer.raised
    THEN Done(<<"get_keypair", "offer">>, FailureResult(offer.exc), {}, {}, {})
    ELSE IF selling.raised
    THEN Done(<<"get_keypair", "offer">>, FailureResult(selling.exc), {}, {}, {})
    ELSE IF buying.raised
    THEN Done(<<"get_keypair", "offer">>, FailureResult(buying.exc), {}, {}, {})
    ELSE IF account.raised
    THEN Done(<<"get_keypair", "offer", "load_account">>,
              FailureResult(account.exc), {}, {}, {})
    ELSE IF response.raised
    THEN Done(<<"get_keypair", "offer", "load_account", "build", "submit">>,
              FailureResult(response.exc), {tx}, {tx}, {response})
    ELSE Done(<<"get_keypair", "offer", "load_account", "build", "submit">>,
              SubmitResult(response.value, "Order cancelled successfully"),
              {tx}, {tx}, {response})

\* Variant of cancel_order that loads the account only after it has built
\* (on sequence 0), signed and submitted, and then reports the load error.
cancel_order_late_load(d, account_id, offer_id, env) ==
    LET keypair == get_keypair(d, account_id)
        offer == env.offer
        selling == dict_to_asset(offer.value.selling)
        buying == dict_to_asset(offer.value.buying)
        account == load_account(env.account, account_id)
        tx == Tx(account_id,
                 ManageSellOfferOp(selling.value, buying.value, "0",
                                   offer.value.price, offer_id))
        signed == sign(tx, keypair.value)
        response == env.submit
    IN
    IF keypair.raised
    THEN Done(<<"get_keypair">>, FailureResult(keypair.exc), {}, {}, {})
    ELSE IF offer.raised
    THEN Done(<<"get_keypair", "offer">>, FailureResult(offer.exc), {}, {}, {})
    ELSE IF selling.raised
    THEN Done(<<"get_keypair", "offer">>, FailureResult(selling.exc), {}, {}, {})
    ELSE IF buying.raised
    THEN Done(<<"get_keypair", "offer">>, FailureResult(buying.exc), {}, {}, {})
    ELSE IF account.raised
    THEN Done(<<"get_keypair", "offer", "build", "sign", "submit", "load_account">>,
              FailureResult(account.exc), {tx}, {signed}, {response})
    ELSE IF response.raised
    THEN Done(<<"get_keypair", "offer", "build", "sign", "submit", "load_account">>,
              FailureResult(response.exc), {tx}, {signed}, {response})
    ELSE Done(<<"get_keypair", "offer", "build", "sign", "submit", "load_account">>,
              SubmitResult(response.value, "Order cancelled successfully"),
              {tx}, {signed}, {response})

\* cancel_order
cancel_order(d, account_id, offer_id, env) ==
    LET keypair == get_keypair(d, account_id)
        offer == env.offer
        selling == dict_to_asset(offer.value.selling)
        buying == dict_to_asset(offer.value.buying)
        account == load_account(env.account, account_id)
        tx == Tx(account_id,
                 ManageSellOfferOp(selling.value, buying.value, "0",
                                   offer.value.price, offer_id))
        signed == sign(tx, keypair.value)
        response == env.submit
    IN
    IF keypair.raised
    THEN Done(<<"get_keypair">>, FailureResult(keypair.exc), {}, {}, {})
    ELSE IF offer.raised
    THEN Done(<<"get_keypair", "offer">>, FailureResult(offer.exc), {}, {}, {})
    ELSE IF selling.raised
    THEN Done(<<"get_keypair", "offer">>, FailureResult(selling.exc), {}, {}, {})
    ELSE IF buying.raised
    THEN Done(<<"get_keypair", "offer">>, FailureResult(buying.exc), {}, {}, {})
    ELSE IF account.raised
    THEN Done(<<"get_keypair", "offer", "load_account">>,
              FailureResult(account.exc), {}, {}, {})
    ELSE IF response.raised
    THEN Done(<<"get_keypair", "offer", "load_account", "build", "sign", "submit">>,
              FailureResult(response.exc), {tx}, {signed}, {response})
    ELSE Done(<<"get_keypair", "offer", "load_account", "build", "sign", "submit">>,
              SubmitResult(response.value, "Order cancelled successfully"),
              {tx}, {signed}, {response})

\* Variant of trading that signs and submits whatever auto_sign says.
trading_ignores_auto_sign(d, action, account_id, selling_asset, buying_asset, amount, price, auto_sign, env) ==
    LET built == build_order_transaction(account_id, action, selling_asset,
                                         buying_asset, amount, price, env)
        signed == sign_transaction(d, account_id, built.result.xdr)
        submitted == submit_transaction(signed.result.signed_xdr, env)
    IN
    IF action \notin {"buy", "sell", "cancel_order", "get_orders"}
    THEN Done(<< >>,
              [success |-> FALSE,
               error |-> Str(Exc("ValueError", "Unknown action", {}, {}))],
              {}, {}, {})
    ELSE IF "error" \in DOMAIN built.result
    THEN Done(built.calls,
              [success |-> FALSE, error |-> built.result.error], {}, {}, {})
    ELSE IF "error" \in DOMAIN signed.result
    THEN Done(built.calls \o signed.calls,
              [success |-> FALSE, error |-> signed.result.error],
              built.built, {}, {})
    ELSE Done(built.calls \o signed.calls \o submitted.calls,
              submitted.result, built.built, submitted.sent, submitted.answer)

\* trading (imported by server.py from stellar_tools, not part of the
\* sources at hand): the facade behind trading_tool, for limit buy and sell.
\* It builds the order; with auto_sign false it returns the unsigned
\* transaction; otherwise it signs with the stored keypair and submits.
\* An action outside the supported set is refused.
trading(d, action, account_id, selling_asset, buying_asset, amount, price, auto_sign, env) ==
    LET built == build_order_transaction(account_id, action, selling_asset,
                                         buying_asset, amount, price, env)
        signed == sign_transaction(d, account_id, built.result.xdr)
        submitted == submit_transaction(signed.result.signed_xdr, env)
    IN
    IF action \notin {"buy", "sell", "cancel_order", "get_orders"}
    THEN Done(<< >>,
              [success |-> FALSE,
               error |-> Str(Exc("ValueError", "Unknown action", {}, {}))],
              {}, {}, {})
    ELSE IF "error" \in DOMAIN built.result
    THEN Done(built.calls,
              [success |-> FALSE, error |-> built.result.error], {}, {}, {})
    ELSE IF ~auto_sign
    THEN built
    ELSE IF "error" \in DOMAIN signed.result
    THEN Done(built.calls \o signed.calls,
              [success |-> FALSE, error |-> signed.result.error],
              built.built, {}, {})
    ELSE Done(built.calls \o signed.calls \o submitted.calls,
              submitted.result, built.built, submitted.sent, submitted.answer)

(***************************************************************************)
(* KeyManager called directly                                              *)
(***************************************************************************)

\* History of writes: account_id a was last written with secret s.
NoteWrite(w, a, s) == [x \in DOMAIN w \cup {a} |-> IF x = a THEN s ELSE w[x]]

\* Variant in which get_keypair takes the secret out of the dict (.pop in
\* place of .get).
StoreAfterStep_get_pops(d, step, ids) ==
    IF step = "get_keypair" THEN [x \in DOMAIN d \ ids |-> d[x]] ELSE d

\* KeyManager._keypair_store after one step of a call that does not write:
\* get_keypair, export_secret, list_accounts and has_account only read the
\* dict (.get, .keys(), in), and the SDK and Horizon steps are not handed it.
StoreAfterStep(d, step, ids) == d

\* KeyManager._keypair_store after the steps of one call.
RECURSIVE StoreAfter(_, _, _)
StoreAfter(d, calls, ids) ==
    IF calls = << >> THEN d
    ELSE StoreAfter(StoreAfterStep(d, Head(calls), ids), Tail(calls), ids)

\* A direct call of a KeyManager method and what it gave back.
VaultCall(op, ids, secrets, ret) ==
    [op |-> op, account |-> ids, secret |-> secrets, ret |-> ret]

KM_Store ==
    \E a \in Identities, s \in Secrets :
        /\ vault' = store(vault, a, s)
        /\ UNCHANGED running
        /\ last' = VaultCall("store", {a}, {s}, Return("None"))
        /\ written' = NoteWrite(written, a, s)

KM_GetKeypair ==
    \E a \in Identities :
        /\ last' = VaultCall("get_keypair", {a}, {}, get_keypair(vault, a))
        /\ vault' = StoreAfter(vault, <<last'.op>>, last'.account)
        /\ UNCHANGED <<written, running>>

KM_ExportSecret ==
    \E a \in Identities :
        /\ last' = VaultCall("export_secret", {a}, {}, export_secret(vault, a))
        /\ vault' = StoreAfter(vault, <<last'.op>>, last'.account)
        /\ UNCHANGED <<written, running>>

KM_ImportKeypair ==
    \E s \in Secrets :
        LET r == import_keypair_km(vault, s) IN
        /\ vault' = r.store
        /\ UNCHANGED running
        /\ last' = VaultCall("import_keypair", {}, {s}, r.ret)
        /\ written' = IF r.ret.raised THEN written
                      ELSE NoteWrite(written, r.ret.value, s)

KM_ListAccounts ==
    /\ last' = VaultCall("list_accounts", {}, {}, Return(list_accounts_keys(vault)))
    /\ vault' = StoreAfter(vault, <<last'.op>>, last'.account)
    /\ UNCHANGED <<written, running>>

KM_HasAccount ==
    \E a \in Identities :
        /\ last' = VaultCall("has_account", {a}, {}, Return(has_account(vault, a)))
        /\ vault' = StoreAfter(vault, <<last'.op>>, last'.account)
        /\ UNCHANGED <<written, running>>

Init ==
    /\ vault = KeyManager_init
    /\ running = << >>
    /\ last = VaultCall("init", {}, {}, Return("None"))
    /\ written = << >>

(***************************************************************************)
(* The tool functions called by the dispatch layer                         *)
(***************************************************************************)

\* One tool invocation: the tool, the acting account_id, and what it did.
Invocation(op, account, done) ==
    [op |-> op, account |-> account, calls |-> done.calls,
     result |-> done.result, built |-> done.built, sent |-> done.sent,
     answer |-> done.answer]

\* An invocation together with the arguments the caller passed.
WithArgs(args, invocation) == [args |-> args] @@ invocation

\* The answers drawn for a Horizon call: all of them when the call can be
\* reached, a single one when an earlier answer already ended the tool.
AnswersIf(reached, outcomes) ==
    IF reached THEN outcomes ELSE {CHOOSE o \in outcomes : TRUE}

\* Inputs a caller may pass.
Limits == {"None", "100"}
Directions == {"buy", "sell", "BUY", "hold"}
Amounts == {"10"}
Prices == {"2"}
AssetPairs ==
    { <<D_native, D_issued>>, <<D_issued, D_native>>,
      <<D_native, D_noissuer>>, <<D_nocode, D_native>> }

TradingActions == {"buy", "sell", "hold"}
TradingPairs == {<<D_native, D_issued>>, <<D_native, D_noissuer>>}

\* XDR strings a caller holds: what the last tool returned, or garbage.
XdrInputs ==
    {GarbageXdr}
        \cup (IF "result" \in DOMAIN last /\ "xdr" \in DOMAIN last.result
              THEN {last.result.xdr} ELSE {})
        \cup (IF "result" \in DOMAIN last /\ "signed_xdr" \in DOMAIN last.result
              THEN {last.result.signed_xdr} ELSE {})

CreateAccount ==
    \E i \in 1..NumKeypairs :
        LET keypair == from_secret(Seed(i)).value
            r == create_account(vault, keypair) IN
        /\ vault' = r.store
        /\ UNCHANGED running
        /\ last' = Invocation("create_account", {}, r.done)
        /\ written' = NoteWrite(written, keypair.public_key, keypair.secret)

ImportKeypair ==
    \E s \in Secrets :
        LET r == import_keypair(vault, s) IN
        /\ vault' = r.store
        /\ UNCHANGED running
        /\ last' = Invocation("import_keypair", {}, r.done)
        /\ written' = IF "error" \in DOMAIN r.done.result THEN written
                      ELSE NoteWrite(written, r.done.result.account_id, s)

ExportKeypair ==
    \E a \in Identities :
        /\ last' = Invocation("export_keypair", {a}, export_keypair(vault, a))
        /\ vault' = StoreAfter(vault, last'.calls, last'.account)
        /\ UNCHANGED <<written, running>>

ListAccounts ==
    /\ last' = Invocation("list_accounts", {}, list_accounts(vault))
    /\ vault' = StoreAfter(vault, last'.calls, last'.account)
    /\ UNCHANGED <<written, running>>

EstablishTrustline ==
    \E a \in Identities, asset \in AssetDicts, limit \in Limits,
       acc \in AccountOutcomes :
      \E sub \in AnswersIf(acc = "ok", SubmitOutcomes) :
        /\ last' = WithArgs([asset |-> asset, limit |-> limit],
                        Invocation("establish_trustline", {a},
                                   establish_trustline(vault, a, asset, limit,
                                       [account |-> acc, submit |-> sub])))
        /\ vault' = StoreAfter(vault, last'.calls, last'.account)
        /\ UNCHANGED <<written, running>>

RemoveTrustline ==
    \E a \in Identities, asset \in AssetDicts, acc \in AccountOutcomes :
      \E sub \in AnswersIf(acc = "ok", SubmitOutcomes) :
        /\ last' = WithArgs([asset |-> asset],
                        Invocation("remove_trustline", {a},
                                   remove_trustline(vault, a, asset,
                                       [account |-> acc, submit |-> sub])))
        /\ vault' = StoreAfter(vault, last'.calls, last'.account)
        /\ UNCHANGED <<written, running>>

BuildOrderTransaction ==
    \E a \in Identities, dir \in Directions, pair \in AssetPairs,
       amount \in Amounts, price \in Prices, acc \in AccountOutcomes :
        /\ last' = WithArgs([buy_or_sell |-> dir, selling_asset |-> pair[1],
                         buying_asset |-> pair[2], amount |-> amount,
                         price |-> price],
                        Invocation("build_order_transaction", {a},
                                   build_order_transaction(a, dir, pair[1],
                                       pair[2], amount, price,
                                       [account |-> acc])))
        /\ vault' = StoreAfter(vault, last'.calls, last'.account)
        /\ UNCHANGED <<written, running>>

SignTransaction ==
    \E a \in Identities, xdr \in XdrInputs :
        /\ last' = Invocation("sign_transaction", {a},
                              sign_transaction(vault, a, xdr))
        /\ vault' = StoreAfter(vault, last'.calls, last'.account)
        /\ UNCHANGED <<written, running>>

SubmitTransaction ==
    \E xdr \in XdrInputs, sub \in SubmitOutcomes :
        /\ last' = Invocation("submit_transaction", {},
                              submit_transaction(xdr, [submit |-> sub]))
        /\ vault' = StoreAfter(vault, last'.calls, last'.account)
        /\ UNCHANGED <<written, running>>

CancelOrder ==
    \E a \in Identities, offer_id \in OfferIds, off \in OfferOutcomes :
      \E acc \in AnswersIf(~off.raised, AccountOutcomes) :
      \E sub \in AnswersIf(~off.raised /\ acc = "ok", SubmitOutcomes) :
        LET done == cancel_order(vault, a, offer_id,
                        [offer |-> off, account |-> acc, submit |-> sub]) IN
        \* offer: what horizon.offers().offer(offer_id).call() answered, if
        \* the lookup was made.
        /\ last' = [offer |-> IF \E i \in DOMAIN done.calls : done.calls[i] = "offer"
                              THEN {off} ELSE {}] @@
                    WithArgs([offer_id |-> offer_id],
                             Invocation("cancel_order", {a}, done))
        /\ vault' = StoreAfter(vault, last'.calls, last'.account)
        /\ UNCHANGED <<written, running>>

Trading ==
    \E a \in Identities, action \in TradingActions, pair \in TradingPairs,
       amount \in Amounts, price \in Prices, auto_sign \in BOOLEAN,
       acc \in AccountOutcomes :
        \E sub \in AnswersIf(auto_sign /\ acc = "ok", SubmitOutcomes) :
            /\ last' = [auto_sign |-> auto_sign, args |-> [action |-> action]] @@
                        Invocation("trading", {a},
                                   trading(vault, action, a, pair[1], pair[2],
                                       amount, price, auto_sign,
                                       [account |-> acc, submit |-> sub]))
            /\ vault' = StoreAfter(vault, last'.calls, last'.account)
            /\ UNCHANGED <<written, running>>

Next ==
    \/ CreateAccount
    \/ ImportKeypair
    \/ ExportKeypair
    \/ ListAccounts
    \/ EstablishTrustline
    \/ RemoveTrustline
    \/ BuildOrderTransaction
    \/ SignTransaction
    \/ SubmitTransaction
    \/ CancelOrder
    \/ Trading

Spec == Init /\ [][Next]_vars

VaultNext ==
    \/ KM_Store
    \/ KM_GetKeypair
    \/ KM_ExportSecret
    \/ KM_ImportKeypair
    \/ KM_ListAccounts
    \/ KM_HasAccount

VaultSpec == Init /\ [][VaultNext]_vars

(***************************************************************************)
(* Properties                                                              *)
(***************************************************************************)

\* Positions of a step in the steps of an invocation.
Positions(calls, step) == {i \in 1..Len(calls) : calls[i] = step}
Has(calls, step) == Positions(calls, step) # {}
Before(calls, a, b) ==
    \A j \in Positions(calls, b) : \E i \in Positions(calls, a) : i < j

IsToolCall == "result" \in DOMAIN last
PipelineOps == {"cancel_order", "establish_trustline", "remove_trustline"}
SigningOps == PipelineOps \cup {"sign_transaction"}

\* The exception, if any, that horizon.submit_transaction raised.
SubmitRaised(l, type) ==
    \E r \in l.answer : r.raised /\ r.exc.type = type

\* C1: after any sequence of store/import/create calls, get_keypair and
\* export_secret fail for every account_id never stored and, for every stored
\* account_id, give back exactly the secret most recently written under it.
C1_GetExportLastWritten ==
    /\ last.op = "export_secret" =>
        \A a \in last.account :
            IF a \in DOMAIN written
            THEN last.ret = Return(written[a])
            ELSE last.ret.raised
    /\ last.op = "get_keypair" =>
        \A a \in last.account :
            IF a \in DOMAIN written
            THEN ~last.ret.raised /\ last.ret.value.secret = written[a]
            ELSE last.ret.raised

\* Secret-key strings that appear in a returned dict: a secret_key entry, or
\* a secret quoted by an error text.
SecretsIn(result) ==
    (IF "secret_key" \in DOMAIN result THEN {result.secret_key} ELSE {})
        \cup (IF "secret" \in DOMAIN result THEN {result.secret} ELSE {})
        \cup (IF "error" \in DOMAIN result THEN result.error.echo ELSE {})

HeldSecrets == {vault[a] : a \in DOMAIN vault}

\* C2: a secret held in the vault appears in a tool's returned dict only when
\* the tool is export_keypair called for the account_id that holds it.
C2_SecretOnlyByExport ==
    IsToolCall =>
        \A s \in SecretsIn(last.result) \cap HeldSecrets :
            /\ last.op = "export_keypair"
            /\ \A a \in last.account : a \in DOMAIN vault /\ vault[a] = s

C2_Witness ==
    /\ IsToolCall
    /\ last.op = "export_keypair"
    /\ SecretsIn(last.result) \cap HeldSecrets # {}

\* C3: in every one-call pipeline (cancel_order, establish_trustline,
\* remove_trustline) build, sign and submit each happen at most once and in
\* that order: nothing is signed before it is built, nothing is submitted
\* before it is signed, the envelope submitted is the built transaction with
\* the signature on it, and the one result carries one success flag, true
\* only after a submission.
C3_BuiltSignedSubmitted ==
    (IsToolCall /\ last.op \in PipelineOps) =>
        /\ \A step \in {"build", "sign", "submit"} :
                Cardinality(Positions(last.calls, step)) <= 1
        /\ Before(last.calls, "build", "sign")
        /\ Before(last.calls, "sign", "submit")
        /\ \A e \in last.sent :
                /\ e.signatures # {}
                /\ [e EXCEPT !.signatures = {}] \in last.built
        /\ "success" \in DOMAIN last.result
        /\ last.result.success \in BOOLEAN
        /\ last.result.success => Has(last.calls, "submit")

C3_Witness ==
    /\ IsToolCall
    /\ last.op = "cancel_order"
    /\ Has(last.calls, "build") /\ Has(last.calls, "sign")
    /\ Has(last.calls, "submit")
    /\ last.result.success

\* C4: when the acting account_id is not in the vault, a signing tool
\* (sign_transaction, cancel_order, establish_trustline, remove_trustline)
\* looks it up once, returns the lookup's not-found error as its result, and
\* neither signs nor submits anything.
C4_AbsentIdentityStops ==
    (IsToolCall /\ last.op \in SigningOps /\ last.account \cap DOMAIN vault = {}) =>
        /\ Cardinality(Positions(last.calls, "get_keypair")) = 1
        /\ last.calls[Len(last.calls)] = "get_keypair"
        /\ ~Has(last.calls, "sign")
        /\ ~Has(last.calls, "submit")
        /\ "error" \in DOMAIN last.result
        /\ last.result.error.msg = "not found in key storage"
        /\ last.result.error.about = last.account
        /\ last.sent = {}

C4_Witness ==
    /\ IsToolCall
    /\ last.op = "cancel_order"
    /\ last.account \cap DOMAIN vault = {}
    /\ DOMAIN vault # {}
    /\ "error" \in DOMAIN last.result

\* Error texts of the build steps: account load, offer lookup, asset
\* resolution, direction check.
BuildErrors ==
    {"load_account failed", "offer lookup failed", "code", "issuer",
     "buy_or_sell must be 'buy' or 'sell'"}

\* C5: when a build step fails (account load, asset resolution, direction,
\* or the offer lookup of cancel), the invocation ends with an error result
\* and nothing is signed and nothing is submitted.
C5_BuildFailureStops ==
    (IsToolCall /\ "error" \in DOMAIN last.result
        /\ last.result.error.msg \in BuildErrors) =>
        /\ ~Has(last.calls, "build")
        /\ ~Has(last.calls, "sign")
        /\ ~Has(last.calls, "submit")
        /\ last.built = {} /\ last.sent = {}

C5_Witness ==
    /\ IsToolCall
    /\ last.op = "cancel_order"
    /\ last.account \subseteq DOMAIN vault
    /\ "error" \in DOMAIN last.result
    /\ last.result.error.msg = "offer lookup failed"

\* C6: with auto_sign false the facade stops after the build and returns the
\* unsigned transaction: no vault lookup, no signature, no submission. With
\* auto_sign true a successful build is followed by the sign step, and a
\* successful signature by the submission.
C6_AutoSignBranch ==
    (IsToolCall /\ last.op = "trading") =>
        /\ ~last.auto_sign =>
            /\ ~Has(last.calls, "get_keypair")
            /\ ~Has(last.calls, "sign")
            /\ ~Has(last.calls, "submit")
            /\ last.sent = {}
            /\ Has(last.calls, "build") =>
                /\ "xdr" \in DOMAIN last.result
                /\ from_xdr(last.result.xdr).value.signatures = {}
        /\ (last.auto_sign /\ Has(last.calls, "build")) =>
            /\ Has(last.calls, "get_keypair")
            /\ Before(last.calls, "build", "get_keypair")
            /\ Has(last.calls, "sign") => Has(last.calls, "submit")
            /\ "xdr" \notin DOMAIN last.result

C6_Witness ==
    /\ IsToolCall
    /\ last.op = "trading"
    /\ ~last.auto_sign
    /\ "xdr" \in DOMAIN last.result

\* C7: horizon.submit_transaction is called at most once per invocation, and
\* when that call fails at the network level the invocation ends there, with
\* success false and the transport's error text.
C7_NoRetry ==
    IsToolCall =>
        /\ Cardinality(Positions(last.calls, "submit")) <= 1
        /\ Cardinality(last.sent) <= 1
        /\ \A r \in last.answer :
            (r.raised /\ r.exc.type \in {"ConnectionError", "ReadTimeout"}) =>
                /\ last.calls[Len(last.calls)] = "submit"
                /\ last.result = [success |-> FALSE, error |-> Str(r.exc)]

C7_Witness ==
    /\ IsToolCall
    /\ last.op = "submit_transaction"
    /\ SubmitRaised(last, "ConnectionError")

\* C8: whenever horizon.submit_transaction returned a response, the success
\* flag of the result is the response's own flag: true exactly when the
\* response says successful, false when the flag is false or missing.
C8_SuccessFlagVerbatim ==
    IsToolCall =>
        \A r \in last.answer :
            ~r.raised =>
                last.result.success =
                    ("successful" \in DOMAIN r.value /\ r.value.successful)

C8_Witness ==
    /\ IsToolCall
    /\ last.op = "establish_trustline"
    /\ \E r \in last.answer : ~r.raised /\ "successful" \notin DOMAIN r.value
    /\ ~last.result.success

\* The result says the transaction failed.
DefiniteFailure(result) == "success" \in DOMAIN result /\ result.success = FALSE

\* C9: a transport error after the transaction was sent is never reported as
\* a definite failure (the outcome is unknown).
C9_UnknownAfterSend ==
    (IsToolCall /\ last.sent # {} /\ SubmitRaised(last, "ReadTimeout")) =>
        ~DefiniteFailure(last.result)

\* The kind of a result: its keys and its success flag, free text aside.
ResultKind(result) ==
    [keys |-> DOMAIN result,
     success |-> IF "success" \in DOMAIN result THEN {result.success} ELSE {}]

\* C10: a submission rejected by the ledger and a submission that could not
\* reach the network never give results of the same kind.
C10_RejectedVsUnreachable ==
    [][(/\ IsToolCall
        /\ SubmitRaised(last, "BadRequestError")
        /\ SubmitRaised(last', "ConnectionError"))
            => ResultKind(last.result) # ResultKind(last'.result)]_vars

\* The keys a tool's success dict starts from.
PayloadKeys == {"account_id", "accounts", "xdr", "signed_xdr", "hash"}

\* A dict the dispatch layer can hand back: an error text, or a payload.
Structured(result) ==
    /\ "raised" \notin DOMAIN result
    /\ \/ /\ "error" \in DOMAIN result
          /\ DOMAIN result.error = {"msg", "about", "echo"}
       \/ /\ "error" \notin DOMAIN result
          /\ DOMAIN result \cap PayloadKeys # {}

\* C11: every tool returns a structured result, a success payload or an
\* error text, whatever the input and whichever of the vault, the XDR codec
\* or Horizon failed; no exception reaches the caller of the tool. When
\* horizon.submit_transaction raised, the result carries that error's text.
C11_NoFaultEscapes ==
    IsToolCall =>
        /\ Structured(last.result)
        /\ \A r \in last.answer :
               r.raised => /\ "error" \in DOMAIN last.result
                           /\ last.result.error = Str(r.exc)

\* export_keypair of an identity that the vault does not hold: the vault's
\* ValueError came back as an error dict.
C11_Witness ==
    /\ IsToolCall
    /\ last.op = "export_keypair"
    /\ \E a \in last.account : export_secret(vault, a).raised
    /\ "error" \in DOMAIN last.result

\* The asset one side of a Horizon offer record names. Horizon spells it
\* asset_type / asset_code / asset_issuer; a record spelled type / code /
\* issuer is read as _dict_to_asset reads it.
OfferAsset(side) ==
    IF "asset_type" \in DOMAIN side
    THEN IF side.asset_type = "native" THEN Asset_native
         ELSE Asset(side.asset_code, side.asset_issuer)
    ELSE dict_to_asset(side).value

\* C12: when the lookup of the offer id returned a record with selling X,
\* buying Y and price P (and the account could be loaded), cancel_order built
\* exactly one manage-sell-offer operation with amount "0", the same offer
\* id, selling X, buying Y and price P.
C12_CancelZeroesSameOffer ==
    (IsToolCall /\ last.op = "cancel_order") =>
        \A o \in last.offer, a \in last.account :
            (/\ ~o.raised
             /\ ~(Has(last.calls, "load_account") /\ ~Has(last.calls, "build")))
            => last.built =
                 {Tx(a, ManageSellOfferOp(OfferAsset(o.value.selling),
                                          OfferAsset(o.value.buying), "0",
                                          o.value.price, last.args.offer_id))}

\* A limit order build_order_transaction built.
IsBuiltOrder ==
    /\ IsToolCall
    /\ last.op = "build_order_transaction"
    /\ last.built # {}

\* C13: the operation of a built limit order carries the caller's amount and
\* price unchanged, and in both directions its selling side is the caller's
\* selling_asset and its buying side the caller's buying_asset; the
\* direction selects the operation type only, manage-buy-offer for buy and
\* manage-sell-offer for sell.
C13_SidesAsGiven ==
    IsBuiltOrder =>
        \E tx \in last.built :
            /\ last.built = {tx}
            /\ tx.op.amount = last.args.amount
            /\ tx.op.price = last.args.price
            /\ tx.op.selling = dict_to_asset(last.args.selling_asset).value
            /\ tx.op.buying = dict_to_asset(last.args.buying_asset).value
            /\ tx.op.type = IF Lower(last.args.buy_or_sell) = "buy"
                            THEN "manage_buy_offer" ELSE "manage_sell_offer"

\* A sell order was built between two different assets.
C13_Witness ==
    /\ IsBuiltOrder
    /\ Lower(last.args.buy_or_sell) = "sell"
    /\ last.args.selling_asset # last.args.buying_asset
    /\ \E tx \in last.built : tx.op.amount = "10" /\ tx.op.price = "2"

\* C13 as stated: the sides follow the direction, a buy offering the selling
\* asset for the buying asset and a sell having the two sides exchanged.
C13_SellSidesInverse ==
    IsBuiltOrder =>
        \A tx \in last.built :
            /\ tx.op.amount = last.args.amount
            /\ tx.op.price = last.args.price
            /\ Lower(last.args.buy_or_sell) = "buy" =>
                  /\ tx.op.selling = dict_to_asset(last.args.selling_asset).value
                  /\ tx.op.buying = dict_to_asset(last.args.buying_asset).value
            /\ Lower(last.args.buy_or_sell) = "sell" =>
                  /\ tx.op.selling = dict_to_asset(last.args.buying_asset).value
                  /\ tx.op.buying = dict_to_asset(last.args.selling_asset).value

TrustlineOps == {"establish_trustline", "remove_trustline"}

\* C14: a transaction built by establish_trustline holds one change-trust
\* operation on the requested asset whose limit is the requested limit, or
\* the maximum when none was given; one built by remove_trustline holds the
\* same type of operation with limit "0".
C14_TrustlineLimit ==
    (IsToolCall /\ last.op \in TrustlineOps /\ last.built # {}) =>
        \E tx \in last.built :
            /\ last.built = {tx}
            /\ tx.op.type = "change_trust"
            /\ tx.op.asset = dict_to_asset(last.args.asset).value
            /\ tx.op.limit =
                 IF last.op = "remove_trustline" THEN "0"
                 ELSE IF last.args.limit = "None" THEN "max"
                 ELSE last.args.limit

\* remove_trustline built and sent its operation for an issued asset.
C14_Witness ==
    /\ IsToolCall
    /\ last.op = "remove_trustline"
    /\ last.args.asset = D_issued
    /\ \E tx \in last.built : tx.op.type = "change_trust" /\ tx.op.limit = "0"
    /\ last.sent # {}

\* C15: establish_trustline and remove_trustline on the native asset always
\* fail, and fail locally: no account is loaded from Horizon, nothing is
\* built and nothing is submitted.
C15_NativeTrustlineRefused ==
    (/\ IsToolCall
     /\ last.op \in TrustlineOps
     /\ dict_get(last.args.asset, "type", "None") = "native")
    => /\ "error" \in DOMAIN last.result
       /\ ~Has(last.calls, "load_account")
       /\ ~Has(last.calls, "submit")
       /\ last.built = {}
       /\ last.sent = {}

\* The steps of an invocation that read the vault or talk to Horizon.
AccessSteps ==
    {"get_keypair", "export_secret", "load_account", "offer", "submit"}

\* The direction or action tag of the invocation is none of the supported.
InvalidDirection ==
    /\ IsToolCall
    /\ \/ /\ last.op = "build_order_transaction"
          /\ Lower(last.args.buy_or_sell) \notin {"buy", "sell"}
       \/ /\ last.op = "trading"
          /\ last.args.action \notin {"buy", "sell", "cancel_order", "get_orders"}

\* C16: validation of the required fields comes before any access: an
\* invocation whose direction is not valid has taken no step that reads the
\* vault or the ledger.
C16_ValidationBeforeAccess ==
    InvalidDirection => \A step \in AccessSteps : ~Has(last.calls, step)

\* C17: a direction or action tag outside the supported set gives an error
\* result: nothing is built or sent, no transaction is returned, and the
\* result never reports success.
C17_UnsupportedTagFails ==
    InvalidDirection =>
        /\ "error" \in DOMAIN last.result
        /\ last.built = {}
        /\ last.sent = {}
        /\ DOMAIN last.result \cap {"xdr", "signed_xdr", "hash"} = {}
        /\ "success" \in DOMAIN last.result => ~last.result.success

\* build_order_transaction was called with direction "hold" for an account
\* that loaded and two assets that parsed: the direction test refused it.
C17_Witness ==
    /\ InvalidDirection
    /\ last.op = "build_order_transaction"
    /\ last.calls = <<"load_account">>
    /\ "error" \in DOMAIN last.result
    /\ last.result.error.msg = "buy_or_sell must be 'buy' or 'sell'"

(***************************************************************************)
(* Market orders. The market executor is part of trading, which server.py  *)
(* imports from stellar_tools and the sources do not contain; it is        *)
(* written here as the specification describes it (section 4.4).           *)
(***************************************************************************)

\* Bounds of the order books and order amounts drawn.
MaxLevels == 2
MaxPrice == 3
MaxAmount == 5
MaxOrder == 12

Min(a, b) == IF a <= b THEN a ELSE b

\* One price level of a book side, and the sides Horizon can answer: asks by
\* rising price, bids by falling price, one level per price.
Levels == [price : 1..MaxPrice, amount : 1..MaxAmount]
SidesUpTo(n) == UNION {[1..k -> Levels] : k \in 0..n}
AskSides(n) ==
    {s \in SidesUpTo(n) :
        \A i \in 1..(Len(s) - 1) : s[i].price < s[i + 1].price}
BidSides(n) ==
    {s \in SidesUpTo(n) :
        \A i \in 1..(Len(s) - 1) : s[i].price > s[i + 1].price}

\* The walk over one side, nearest price first: need is the amount still to
\* cover, filled the depth taken so far, price the price of the last level
\* touched.
RECURSIVE Walk(_, _, _, _)
Walk(levels, need, filled, price) ==
    IF levels = << >> \/ need = 0
    THEN [price |-> price, filled |-> filled]
    ELSE LET take == Min(need, Head(levels).amount) IN
         Walk(Tail(levels), need - take, filled + take, Head(levels).price)

\* Variant of market_execute that quotes the best price of the side, the
\* price of its first level.
market_execute_best_price(side, amount) ==
    IF side = << >>
    THEN Raise(Exc("InsufficientLiquidity", "no depth", {}, {}))
    ELSE LET w == Walk(side, amount, 0, 0) IN
         Return([price |-> Head(side).price, filled |-> w.filled,
                 partial |-> w.filled < amount])

\* Variant of market_execute that treats an empty side as a partial fill of
\* nothing.
market_execute_empty_partial(side, amount) ==
    LET w == Walk(side, amount, 0, 0) IN
    Return([price |-> w.price, filled |-> w.filled,
            partial |-> w.filled < amount])

\* The market executor on the relevant side of the book: the derived limit
\* price, the amount the book can fill, and whether that is less than asked.
market_execute(side, amount) ==
    IF side = << >>
    THEN Raise(Exc("InsufficientLiquidity", "no depth", {}, {}))
    ELSE LET w == Walk(side, amount, 0, 0) IN
         Return([price |-> w.price, filled |-> w.filled,
                 partial |-> w.filled < amount])

\* trading with order_type "market": reads the book, derives the price from
\* the asks for a buy and from the bids for a sell, and runs the limit order
\* of that price through the pipeline.
trading_market(d, action, account_id, selling_asset, buying_asset, amount, book, auto_sign, env) ==
    LET side == IF action = "buy" THEN book.asks ELSE book.bids
        exec == market_execute(side, amount)
        order == trading(d, action, account_id, selling_asset, buying_asset,
                         amount, exec.value.price, auto_sign, env)
    IN
    IF action \notin {"buy", "sell"}
    THEN Done(<< >>,
              [success |-> FALSE,
               error |-> Str(Exc("ValueError", "Unknown action", {}, {}))],
              {}, {}, {})
    ELSE IF exec.raised
    THEN Done(<<"orderbook">>, FailureResult(exec.exc), {}, {}, {})
    ELSE Done(<<"orderbook">> \o order.calls,
              [market_execution |-> exec.value] @@ order.result,
              order.built, order.sent, order.answer)

\* A market order a caller may place: the direction, the amount and the book
\* Horizon holds at that moment.
MarketRequest(action, amount, asks, bids) ==
    [op |-> "request",
     args |-> [action |-> action, amount |-> amount,
               book |-> [asks |-> asks, bids |-> bids]]]

\* The server after one import_keypair, with a market order about to be
\* placed.
MarketInit ==
    /\ vault = import_keypair_km(KeyManager_init, Seed(1)).store
    /\ written = NoteWrite(<< >>, 1, Seed(1))
    /\ running = << >>
    \* a book of at most MaxLevels levels over its two sides
    /\ \E asks \in AskSides(MaxLevels) :
          \E bids \in BidSides(MaxLevels - Len(asks)) :
              \E action \in {"buy", "sell"}, amount \in 1..MaxOrder :
                  last = MarketRequest(action, amount, asks, bids)

\* trading_tool(action, order_type="market", ...) by the stored account, on
\* a reachable Horizon that accepts the transaction.
MarketOrder ==
    /\ last.op = "request"
    /\ last' = WithArgs(last.args,
                   Invocation("trading", {1},
                       trading_market(vault, last.args.action, 1, D_native,
                           D_issued, last.args.amount, last.args.book, TRUE,
                           [account |-> "ok",
                            submit |-> Return([successful |-> TRUE,
                                               hash |-> "H", ledger |-> "L"])])))
    /\ UNCHANGED <<vault, written, running>>

MarketNext == MarketOrder

MarketSpec == MarketInit /\ [][MarketNext]_vars

\* The side of the book a market order of this direction consumes.
RelevantSide(args) ==
    IF args.action = "buy" THEN args.book.asks ELSE args.book.bids

\* Depth of the first k levels of a side.
RECURSIVE PrefixDepth(_, _)
PrefixDepth(side, k) ==
    IF k = 0 THEN 0 ELSE PrefixDepth(side, k - 1) + side[k].amount

\* The levels an order of this amount touches: the shortest prefix of the
\* side that covers the amount, or the whole side when it cannot.
Touched(side, amount) ==
    IF PrefixDepth(side, Len(side)) < amount THEN 1..Len(side)
    ELSE 1..(CHOOSE k \in 1..Len(side) :
                /\ PrefixDepth(side, k) >= amount
                /\ PrefixDepth(side, k - 1) < amount)

\* The worst price among the touched levels: the highest ask for a buy, the
\* lowest bid for a sell.
WorstTouched(args) ==
    LET side == RelevantSide(args)
        prices == {side[i].price : i \in Touched(side, args.amount)}
    IN
    CHOOSE p \in prices :
        \A q \in prices : IF args.action = "buy" THEN q <= p ELSE q >= p

\* A market order that ran on a book with depth on its side.
IsMarketFill ==
    /\ IsToolCall
    /\ last.op = "trading"
    /\ "book" \in DOMAIN last.args
    /\ RelevantSide(last.args) # << >>

ExampleAsks == <<[price |-> 2, amount |-> 5], [price |-> 3, amount |-> 5]>>

\* C18: a market order on a side with depth derives the worst price among
\* the levels it touches, walking nearest price first, and fills the smaller
\* of the amount asked and the depth of the side; a fill below the amount is
\* reported as partial and the order proceeds, it is not an error. On asks
\* (2,5),(3,5) a buy of 8 gives price 3 and fill 8, a buy of 12 gives fill 10.
C18_MarketWalk ==
    IsMarketFill =>
        LET args == last.args
            side == RelevantSide(args)
            depth == PrefixDepth(side, Len(side))
        IN
        /\ "market_execution" \in DOMAIN last.result
        /\ "error" \notin DOMAIN last.result
        /\ last.result.market_execution.price = WorstTouched(args)
        /\ last.result.market_execution.filled = Min(args.amount, depth)
        /\ last.result.market_execution.partial = (depth < args.amount)
        /\ \A tx \in last.built :
               tx.op.price = last.result.market_execution.price
        /\ (args.action = "buy" /\ side = ExampleAsks /\ args.amount = 8) =>
               /\ last.result.market_execution.price = 3
               /\ last.result.market_execution.filled = 8
        /\ (args.action = "buy" /\ side = ExampleAsks /\ args.amount = 12) =>
               /\ last.result.market_execution.filled = 10
               /\ last.result.market_execution.partial

\* The buy of 8 on asks (2,5),(3,5) was executed: price 3, fill 8, sent.
C18_Witness ==
    /\ IsMarketFill
    /\ last.args.action = "buy"
    /\ last.args.book.asks = ExampleAsks
    /\ last.args.amount = 8
    /\ last.result.market_execution = [price |-> 3, filled |-> 8, partial |-> FALSE]
    /\ last.sent # {}

\* C19: a market order on a book with no depth on its side fails with
\* InsufficientLiquidity; no operation is built, signed or submitted.
C19_ZeroDepthFails ==
    (/\ IsToolCall
     /\ last.op = "trading"
     /\ "book" \in DOMAIN last.args
     /\ RelevantSide(last.args) = << >>)
    => /\ "error" \in DOMAIN last.result
       /\ last.result.error = Str(Exc("InsufficientLiquidity", "no depth", {}, {}))
       /\ ~last.result.success
       /\ last.built = {}
       /\ last.sent = {}
       /\ \A step \in {"build", "sign", "submit"} : ~Has(last.calls, step)

\* A buy on a book whose asks are empty while its bids are not.
C19_Witness ==
    /\ IsToolCall
    /\ last.op = "trading"
    /\ "book" \in DOMAIN last.args
    /\ last.args.action = "buy"
    /\ last.args.book.asks = << >>
    /\ last.args.book.bids # << >>
    /\ "error" \in DOMAIN last.result

\* C20: import_keypair is idempotent: when a successful import of a secret is
\* followed by an import of the same secret, the second returns the same
\* account_id and leaves the vault as the first left it, with that
\* account_id holding that secret.
C20_ImportIdempotent ==
    [][(/\ last.op = "import_keypair"
        /\ "ret" \in DOMAIN last
        /\ ~last.ret.raised
        /\ last'.op = "import_keypair"
        /\ last'.secret = last.secret)
       => /\ last'.ret = last.ret
          /\ vault' = vault
          /\ last.ret.value \in DOMAIN vault'
          /\ vault'[last.ret.value] \in last.secret]_vars

\* A secret was imported into a vault that holds other entries as well, and
\* is stored under the account_id returned.
C20_Witness ==
    /\ last.op = "import_keypair"
    /\ "ret" \in DOMAIN last
    /\ ~last.ret.raised
    /\ Cardinality(DOMAIN vault) >= 2
    /\ vault[last.ret.value] \in last.secret

\* C21: import_keypair of a secret from which no key can be derived raises,
\* and the vault after the call is the vault before it: no entry is added
\* and none is changed.
C21_MalformedImportNoChange ==
    [][(/\ last'.op = "import_keypair"
        /\ "ret" \in DOMAIN last')
       => \A s \in last'.secret :
              from_secret(s).raised =>
                  /\ last'.ret.raised
                  /\ last'.ret.exc.type = "Ed25519SecretSeedInvalidError"
                  /\ vault' = vault]_vars

\* A malformed secret was refused by import_keypair on a vault that holds
\* entries.
C21_Witness ==
    /\ last.op = "import_keypair"
    /\ "ret" \in DOMAIN last
    /\ last.secret = {MalformedSecret}
    /\ last.ret.raised
    /\ vault # << >>

\* The call ended with the ValueError that says the account was not found.
ReportsNotFound(ret) ==
    /\ ret.raised
    /\ ret.exc.type = "ValueError"
    /\ ret.exc.msg \in {"not found in key storage", "not found in storage"}

\* C22: get_keypair and export_secret report not-found exactly when the
\* account_id is not a key of the vault, whatever secret is stored under it
\* (an empty or malformed one included), and has_account is true for every
\* stored account_id.
C22_NotFoundIffAbsent ==
    (last.op \in {"get_keypair", "export_secret"} /\ "ret" \in DOMAIN last) =>
        \A a \in last.account :
            /\ ReportsNotFound(last.ret) <=> a \notin DOMAIN vault
            /\ a \in DOMAIN vault => has_account(vault, a)

\* The account_id is the public key derived from the secret.
Derived(account_id, secret_key) ==
    /\ ~from_secret(secret_key).raised
    /\ from_secret(secret_key).value.public_key = account_id

\* C23: import_keypair writes only a pair whose account_id is derived from
\* its secret and touches no other entry, whereas store checks nothing: it
\* writes the pair it is given, derived or not, so the vault holds derived
\* pairs only as far as the callers of store pass derived pairs.
C23_OnlyCallersGuarantee ==
    [][/\ (last'.op = "import_keypair" /\ "ret" \in DOMAIN last'
           /\ ~last'.ret.raised)
          => /\ last'.ret.value \in DOMAIN vault'
             /\ Derived(last'.ret.value, vault'[last'.ret.value])
             /\ \A a \in DOMAIN vault :
                    a # last'.ret.value => (a \in DOMAIN vault' /\ vault'[a] = vault[a])
       /\ (last'.op = "store" /\ "ret" \in DOMAIN last')
          => \A a \in last'.account, s \in last'.secret :
                 vault' = DictSet(vault, a, s)]_vars

\* store was given an account_id other than the one derived from the secret
\* and the vault holds the pair.
C23_Witness ==
    /\ last.op = "store"
    /\ "ret" \in DOMAIN last
    /\ \E a \in last.account, s \in last.secret :
           /\ s \in ValidSecrets
           /\ ~Derived(a, s)
           /\ a \in DOMAIN vault
           /\ vault[a] = s

\* C23 as stated: every entry of the vault pairs an account_id with a secret
\* from which that account_id is derived.
C23_EveryEntryDerived ==
    \A a \in DOMAIN vault : Derived(a, vault[a])

\* C24: the vault never loses an identity: every account_id ever written by
\* create_account or import_keypair is still a key of the vault after any
\* later tool calls, has_account is true for it, nothing else is a key, and
\* the vault holds one secret for it, the one last written.
C24_NeverShrinks ==
    /\ DOMAIN written = DOMAIN vault
    /\ \A a \in DOMAIN written :
           /\ has_account(vault, a)
           /\ vault[a] = written[a]

\* Two accounts were stored and a later failing cancel_order left both in
\* the vault.
C24_Witness ==
    /\ IsToolCall
    /\ last.op = "cancel_order"
    /\ "error" \in DOMAIN last.result
    /\ Cardinality(DOMAIN written) >= 2
    /\ DOMAIN written \subseteq DOMAIN vault

\* C25: list_accounts returns the account ids that are keys of the vault at
\* the time of the call, each once, with count the length of the list; and
\* the list is a snapshot: whatever tool runs next, a write to the vault
\* included, the list returned before still has the items it had.
C25_ListSnapshot ==
    [][(IsToolCall /\ last.op = "list_accounts") =>
           LET accounts == last.result.accounts
               items == ListItems(accounts, vault)
           IN
           /\ {items[i] : i \in 1..Len(items)} = DOMAIN vault
           /\ \A a \in DOMAIN vault : has_account(vault, a)
           /\ \A i, j \in 1..Len(items) : items[i] = items[j] => i = j
           /\ last.result.count = Len(items)
           /\ ListItems(accounts, vault') = items]_vars

\* list_accounts returned two account ids.
C25_Witness ==
    /\ IsToolCall
    /\ last.op = "list_accounts"
    /\ last.result.count = 2
    /\ Len(ListItems(last.result.accounts, vault)) = 2

(***************************************************************************)
(* KeyManager called by two threads at once. A call runs one operation on   *)
(* the dict at a step; the interpreter runs each single dict operation     *)
(* (d.get(k), d[k] = v, k in d) without interleaving another thread in it. *)
(***************************************************************************)

Threads == {"t1", "t2"}

\* A thread: the call it runs, its position in it, what it has read from
\* the dict or derived, the assignments it has still to make, the outcome.
Thread(op, ids, secrets, pc, read, pending, ret) ==
    [op |-> op, account |-> ids, secret |-> secrets, pc |-> pc,
     read |-> read, pending |-> pending, ret |-> ret]
Idle == Thread("none", {}, {}, "idle", {}, << >>, {})

\* Variant of the assignment of store that first inserts the key with an
\* empty value and fills the secret in with a second assignment.
StoreAssignments_two_step(account_id, secret_key) ==
    << [key |-> account_id, value |-> EmptySecret],
       [key |-> account_id, value |-> secret_key] >>

\* The assignments to the dict that store(account_id, secret_key) and the
\* last line of import_keypair make: self._keypair_store[account_id] =
\* secret_key, one assignment.
StoreAssignments(account_id, secret_key) ==
    << [key |-> account_id, value |-> secret_key] >>

\* The dict a lookup works on once it has read: d.get(account_id) gave
\* the value in read, or None.
ReadDict(account_id, read) ==
    IF read = {} THEN << >>
    ELSE DictSet(<< >>, account_id, CHOOSE s \in read : TRUE)

\* The vaults with at most one entry: the state after at most one store.
SmallVaults ==
    {<< >>} \cup {store(KeyManager_init, a, s) : a \in Identities, s \in Secrets}

ConcInit ==
    /\ vault \in SmallVaults
    /\ written = vault
    /\ last = [op |-> "concurrent", before |-> vault]
    /\ running = [t \in Threads |-> Idle]

\* A thread enters a KeyManager method.
T_Call(t) ==
    /\ running[t].pc = "idle"
    /\ \E a \in Identities, s \in Secrets,
          op \in {"store", "import_keypair", "get_keypair", "export_secret",
                  "has_account"} :
         running' = [running EXCEPT ![t] =
            CASE op = "store" ->
                   Thread(op, {a}, {s}, "write", {}, StoreAssignments(a, s), {})
              [] op = "import_keypair" ->
                   Thread(op, {}, {s}, "derive", {}, << >>, {})
              [] OTHER ->
                   Thread(op, {a}, {}, "read", {}, << >>, {})]
    /\ UNCHANGED <<vault, written, last>>

\* import_keypair: keypair = Keypair.from_secret(secret_key), no dict access.
T_Derive(t) ==
    /\ running[t].pc = "derive"
    /\ \E s \in running[t].secret :
         LET keypair == from_secret(s) IN
         running' = [running EXCEPT ![t] =
            IF keypair.raised
            THEN Thread("import_keypair", {}, {s}, "done", {}, << >>, {keypair})
            ELSE Thread("import_keypair", {keypair.value.public_key}, {s},
                        "write", {},
                        StoreAssignments(keypair.value.public_key, s), {})]
    /\ UNCHANGED <<vault, written, last>>

\* One assignment self._keypair_store[key] = value; the call returns after
\* its last one.
T_Write(t) ==
    /\ running[t].pc = "write"
    /\ LET th == running[t]
           w == Head(th.pending)
           finished == Len(th.pending) = 1
       IN
       /\ vault' = DictSet(vault, w.key, w.value)
       /\ written' = IF finished
                     THEN NoteWrite(written, CHOOSE a \in th.account : TRUE,
                                    CHOOSE s \in th.secret : TRUE)
                     ELSE written
       /\ running' = [running EXCEPT ![t] =
            IF finished
            THEN Thread(th.op, th.account, th.secret, "done", {}, << >>,
                        {IF th.op = "store" THEN Return("None")
                         ELSE Return(CHOOSE a \in th.account : TRUE)})
            ELSE Thread(th.op, th.account, th.secret, "write", {},
                        Tail(th.pending), {})]
    /\ UNCHANGED last

\* The one access of a lookup to the dict: self._keypair_store.get(account_id)
\* or account_id in self._keypair_store.
T_Read(t) ==
    /\ running[t].pc = "read"
    /\ LET th == running[t] IN
       \E a \in th.account :
         running' = [running EXCEPT ![t] =
            Thread(th.op, th.account, {}, "return",
                   IF a \in DOMAIN vault THEN {vault[a]} ELSE {}, << >>, {})]
    /\ UNCHANGED <<vault, written, last>>

\* The rest of a lookup, on the value it read.
T_Return(t) ==
    /\ running[t].pc = "return"
    /\ LET th == running[t] IN
       \E a \in th.account :
         LET d == ReadDict(a, th.read) IN
         running' = [running EXCEPT ![t] =
            Thread(th.op, th.account, {}, "done", th.read, << >>,
                   {CASE th.op = "get_keypair" -> get_keypair(d, a)
                      [] th.op = "export_secret" -> export_secret(d, a)
                      [] OTHER -> Return(has_account(d, a))})]
    /\ UNCHANGED <<vault, written, last>>

ConcNext ==
    \/ \E t \in Threads : T_Call(t)
    \/ \E t \in Threads : T_Derive(t)
    \/ \E t \in Threads : T_Write(t)
    \/ \E t \in Threads : T_Read(t)
    \/ \E t \in Threads : T_Return(t)

ConcSpec == ConcInit /\ [][ConcNext]_vars

WriteOps == {"store", "import_keypair"}
LookupOps == {"get_keypair", "export_secret", "has_account"}

\* The secrets the vault may show for an account_id while the calls run:
\* the one it held before, and those the running write calls were given.
SecretsFor(a) ==
    (IF a \in DOMAIN last.before THEN {last.before[a]} ELSE {})
        \cup UNION {running[t].secret :
                      t \in {u \in Threads : /\ running[u].op \in WriteOps
                                             /\ a \in running[u].account}}

\* The threads that have completed a write to the account_id.
Writers(a) ==
    {t \in Threads : /\ running[t].op \in WriteOps
                     /\ running[t].pc = "done"
                     /\ a \in running[t].account
                     /\ \E r \in running[t].ret : ~r.raised}

\* C26: under every interleaving of two calls, the vault holds for each
\* account_id exactly the secret of the write that completed last, never a
\* value no write was given; a lookup has read for its account_id either
\* nothing, when the key was absent before the calls, or a secret that was
\* there before or that a concurrent write was given; and when the calls
\* have returned, an account_id written by both holds one of the two secrets.
C26_WritesAtomic ==
    /\ DOMAIN vault = DOMAIN written
    /\ \A a \in DOMAIN vault : vault[a] = written[a] /\ vault[a] \in SecretsFor(a)
    /\ \A t \in Threads :
          (running[t].op \in LookupOps /\ running[t].pc \in {"return", "done"}) =>
              \A a \in running[t].account :
                  /\ running[t].read \subseteq SecretsFor(a)
                  /\ running[t].read = {} => a \notin DOMAIN last.before
    /\ \A a \in Identities :
          (Writers(a) # {} /\ \A t \in Threads : running[t].pc = "done") =>
              /\ a \in DOMAIN vault
              /\ \E t \in Writers(a) : running[t].secret = {vault[a]}

\* Both threads wrote the same account_id with different secrets and have
\* returned; the vault holds one of the two.
C26_Witness ==
    /\ DOMAIN running = Threads
    /\ \A t \in Threads : running[t].pc = "done"
    /\ running["t1"].op = "store"
    /\ running["t2"].op = "import_keypair"
    /\ running["t1"].account = running["t2"].account
    /\ running["t1"].secret # running["t2"].secret
    /\ \E a \in running["t1"].account :
           {vault[a]} \in {running["t1"].secret, running["t2"].secret}

(***************************************************************************)
(* The asset resolver                                                      *)
(***************************************************************************)

\* An asset dict that is not native and lacks its code or its issuer.
Incomplete(asset_dict) ==
    /\ dict_get(asset_dict, "type", "None") # "native"
    /\ {"code", "issuer"} \ DOMAIN asset_dict # {}

\* The asset dicts the last invocation was given to resolve.
AssetArgs ==
    IF ~IsToolCall THEN {}
    ELSE IF last.op \in TrustlineOps THEN {last.args.asset}
    ELSE IF last.op = "build_order_transaction"
    THEN {last.args.selling_asset, last.args.buying_asset}
    ELSE {}

\* The error _dict_to_asset raises on one of the given dicts, as the tool
\* reports it.
ResolverErrors == {Str(dict_to_asset(a).exc) : a \in {b \in AssetArgs : dict_to_asset(b).raised}}

\* C27: resolving an asset dict that is not native and lacks its code or its
\* issuer fails, whatever the vault holds; a tool that was given such a dict
\* returns an error, builds nothing and submits nothing, and once its earlier
\* steps have passed the error it returns is the resolver's.
C27_IncompleteAssetFails ==
    /\ \A a \in AssetDicts : Incomplete(a) => dict_to_asset(a).raised
    /\ (\E a \in AssetArgs : Incomplete(a)) =>
          /\ "error" \in DOMAIN last.result
          /\ ~Has(last.calls, "build")
          /\ ~Has(last.calls, "submit")
          /\ last.built = {}
          /\ last.sent = {}
          /\ last.answer = {}
          /\ (/\ last.op \in TrustlineOps
              /\ \A a \in last.account : a \in DOMAIN vault /\ Truthy(vault[a]))
                 => /\ last.result.error \in ResolverErrors
                    /\ last.calls = <<"get_keypair">>

\* establish_trustline for an account held in the vault was given an asset
\* dict without issuer: it stopped after the vault lookup with the resolver's
\* error.
C27_Witness ==
    /\ IsToolCall
    /\ last.op = "establish_trustline"
    /\ last.args.asset = D_noissuer
    /\ \A a \in last.account : a \in DOMAIN vault /\ Truthy(vault[a])
    /\ last.calls = <<"get_keypair">>
    /\ last.result.error \in ResolverErrors
    /\ last.sent = {}

(***************************************************************************)
(* AssetSpec: _dict_to_asset applied to pairs of asset dicts               *)
(***************************************************************************)

AssetCodes == {"USDC", "XLM", "EURC"}

\* Asset dicts a caller may pass: native, issued with and without the type
\* key, and dicts with a key missing.
ResolverInputs ==
    {D_native, D_nocode, D_noissuer}
        \cup {[code |-> c, issuer |-> i] : c \in AssetCodes, i \in Identities}
        \cup {[type |-> "issued", code |-> c, issuer |-> i] :
                  c \in AssetCodes, i \in Identities}

\* Each call of Asset.native() or Asset(code, issuer) makes a new object.
NewObject(id, ret) ==
    IF ret.raised THEN ret ELSE Return([id |-> id, asset |-> ret.value])

\* Asset.__eq__ of the SDK: same code and same issuer.
Asset_eq(x, y) ==
    /\ x.asset.code = y.asset.code
    /\ x.asset.issuer = y.asset.issuer

AssetInit ==
    /\ vault = KeyManager_init
    /\ written = << >>
    /\ running = << >>
    /\ last = [op |-> "init"]

\* _dict_to_asset(left), _dict_to_asset(right), and _dict_to_asset(left) again.
ResolvePair ==
    \E left \in ResolverInputs, right \in ResolverInputs :
        /\ last' = [op |-> "dict_to_asset", left |-> left, right |-> right,
                    first |-> NewObject(1, dict_to_asset(left)),
                    second |-> NewObject(2, dict_to_asset(right)),
                    again |-> NewObject(3, dict_to_asset(left))]
        /\ UNCHANGED <<vault, written, running>>

AssetNext == ResolvePair

AssetSpec == AssetInit /\ [][AssetNext]_vars

IsNativeDict(asset_dict) == dict_get(asset_dict, "type", "None") = "native"

\* C28: resolution is deterministic and respects asset equality: resolving
\* the same dict twice fails both times or gives equal assets (so native
\* twice gives equal results); two issued dicts resolve to equal assets
\* exactly when their codes and their issuers both match; and the asset of a
\* native dict never equals the asset of an issued dict, whatever its code.
C28_ResolutionRespectsEquality ==
    last.op = "dict_to_asset" =>
        /\ last.first.raised = last.again.raised
        /\ ~last.first.raised => Asset_eq(last.first.value, last.again.value)
        /\ (~last.first.raised /\ ~last.second.raised) =>
              IF IsNativeDict(last.left) /\ IsNativeDict(last.right)
              THEN Asset_eq(last.first.value, last.second.value)
              ELSE IF IsNativeDict(last.left) \/ IsNativeDict(last.right)
              THEN ~Asset_eq(last.first.value, last.second.value)
              ELSE Asset_eq(last.first.value, last.second.value)
                       <=> /\ last.left.code = last.right.code
                           /\ last.left.issuer = last.right.issuer

\* The native dict was resolved next to an issued dict whose code is "XLM":
\* two distinct assets, and the native one equal to its second resolution.
C28_Witness ==
    /\ last.op = "dict_to_asset"
    /\ last.left = D_native
    /\ ~IsNativeDict(last.right)
    /\ ~last.second.raised
    /\ last.right.code = "XLM"
    /\ ~Asset_eq(last.first.value, last.second.value)
    /\ Asset_eq(last.first.value, last.again.value)
    /\ last.first.value.id # last.again.value.id

(***************************************************************************)
(* Frame of the vault                                                      *)
(***************************************************************************)

\* The calls that write KeyManager._keypair_store.
VaultWriters == {"create_account", "store", "import_keypair"}

\* C29: the vault is changed only by account generation, store and import:
\* every step that changes the dict is one of these three calls, so get,
\* export, list, contains and every build, sign, submit, cancel and trustline
\* call leaves it as it was, whether the call succeeds or fails.
C29_OnlyWritersChangeVault ==
    [][vault' # vault => last'.op \in VaultWriters]_vars

\* cancel_order has run to its submission, and sign_transaction has failed,
\* for an account whose secret the vault still holds as it was written.
C29_Witness ==
    /\ IsToolCall
    /\ last.op \in {"cancel_order", "sign_transaction"}
    /\ last.op = "cancel_order" => Has(last.calls, "submit")
    /\ last.op = "sign_transaction" => "error" \in DOMAIN last.result
    /\ Has(last.calls, "get_keypair")
    /\ \A a \in last.account : a \in DOMAIN vault /\ Truthy(vault[a])
    /\ DOMAIN vault = DOMAIN written
    /\ \A a \in DOMAIN vault : vault[a] = written[a]

(***************************************************************************)
(* Accounts made by create_account                                         *)
(***************************************************************************)

\* The result of a tool is the vault's not-found error.
NotFoundResult(result) ==
    /\ "error" \in DOMAIN result
    /\ result.error.msg \in {"not found in key storage", "not found in storage"}

\* The account ids list_accounts gives back for a vault.
Listed(d) ==
    LET items == ListItems(list_accounts(d).result.accounts, d) IN
    {items[i] : i \in 1..Len(items)}

\* C30: after a successful create_account the returned account_id is in the
\* vault with the secret it is derived from and is listed by list_accounts;
\* and from then on list_accounts lists it, and sign_transaction and
\* establish_trustline called for it do not fail with the not-found error.
C30_CreatedAccountUsable ==
    IsToolCall =>
        /\ (last.op = "create_account" /\ "error" \notin DOMAIN last.result) =>
              /\ last.result.account_id \in DOMAIN vault
              /\ Derived(last.result.account_id, vault[last.result.account_id])
              /\ last.result.account_id \in DOMAIN written
              /\ last.result.account_id \in Listed(vault)
              /\ ~get_keypair(vault, last.result.account_id).raised
        /\ last.op = "list_accounts" =>
              \A a \in DOMAIN written :
                  \E i \in 1..Len(ListItems(last.result.accounts, vault)) :
                      ListItems(last.result.accounts, vault)[i] = a
        /\ (/\ last.op \in {"sign_transaction", "establish_trustline"}
            /\ last.account \subseteq DOMAIN written)
              => /\ ~NotFoundResult(last.result)
                 /\ Has(last.calls, "get_keypair")

\* establish_trustline, called for an account made earlier, was signed and
\* submitted while a second account was in the vault as well.
C30_Witness ==
    /\ IsToolCall
    /\ last.op = "establish_trustline"
    /\ last.account # {}
    /\ last.account \subseteq DOMAIN written
    /\ Cardinality(DOMAIN written) = 2
    /\ Has(last.calls, "sign")
    /\ ~NotFoundResult(last.result)

(***************************************************************************)
(* Order of the steps of the one-call pipelines                            *)
(***************************************************************************)

\* The steps of a pipeline in the order of its statements.
StepOrder(op) ==
    IF op = "cancel_order"
    THEN <<"get_keypair", "offer", "load_account", "build", "sign", "submit">>
    ELSE <<"get_keypair", "load_account", "build", "sign", "submit">>

IsPrefix(s, t) == Len(s) <= Len(t) /\ \A i \in 1..Len(s) : s[i] = t[i]

\* The requests a pipeline makes to Horizon.
LedgerReads == {"offer", "load_account"}

\* C31: cancel_order, establish_trustline and remove_trustline take their
\* steps in one order, each at most once: vault lookup, then the ledger reads
\* (offer lookup for cancel_order, then the account load), then build, sign,
\* submit. A call that stops short of the submission returns an error, and
\* the step that failed is the last one taken: after a failed vault lookup
\* there is no ledger read and no submission, after a failed offer lookup or
\* account load nothing is built, signed or submitted.
C31_StepsInOrder ==
    (IsToolCall /\ last.op \in PipelineOps) =>
        /\ last.calls # << >>
        /\ IsPrefix(last.calls, StepOrder(last.op))
        /\ last.calls # StepOrder(last.op) =>
              /\ "error" \in DOMAIN last.result
              /\ ~last.result.success
              /\ last.sent = {} /\ last.answer = {}
        /\ (\E a \in last.account : a \notin DOMAIN vault) =>
              /\ last.calls = <<"get_keypair">>
              /\ NotFoundResult(last.result)
              /\ \A step \in LedgerReads \cup {"submit"} : ~Has(last.calls, step)
        /\ (last.op = "cancel_order" /\ \E off \in last.offer : off.raised) =>
              last.calls = <<"get_keypair", "offer">>
        /\ ("error" \in DOMAIN last.result
                /\ last.result.error.msg = "load_account failed") =>
              /\ last.calls[Len(last.calls)] = "load_account"
              /\ last.built = {}
        /\ Has(last.calls, "build") <=> last.built # {}
        /\ Has(last.calls, "submit") <=> last.answer # {}
        /\ Has(last.calls, "sign") <=> last.sent # {}

\* cancel_order found the keypair and the offer, and the account load
\* failed: the call stopped there with an error.
C31_Witness ==
    /\ IsToolCall
    /\ last.op = "cancel_order"
    /\ \A a \in last.account : a \in DOMAIN vault
    /\ last.calls = <<"get_keypair", "offer", "load_account">>
    /\ "error" \in DOMAIN last.result
    /\ last.result.error.msg = "load_account failed"
    /\ last.sent = {}

=============================================================================
